---- MODULE Spec2Model ----
(***************************************************************************)
(* Model of include/spdlog/sinks/file_sinks.h: simple_file_sink, the        *)
(* size-triggered rotating_file_sink and the time-triggered                *)
(* daily_file_sink, and the file names the constructors derive.            *)
(*                                                                         *)
(* The file capability (details::file_helper) and the calendar capability  *)
(* (details::os::localtime, std::mktime) are not part of file_sinks.h;     *)
(* they are modelled from their contract: a disk is a map from file names  *)
(* to files, a remove or rename either completes or fails and changes      *)
(* nothing, and an injected fault makes one chosen operation fail.         *)
(***************************************************************************)
EXTENDS Integers, Sequences, FiniteSets, TLC

(***************************************************************************)
(* Bounds of the model.                                                    *)
(***************************************************************************)
\* largest max_files a sink is constructed with
MaxBackups == 2
\* number of _sink_it calls on the rotating sink
MaxWrites == 3
\* the clock readings span the days 0..MaxDay
MaxDay == 2
\* clock ticks in a second (system_clock is finer than time_t)
TicksPerSec == 2
\* number of _sink_it calls on the daily sink
MaxDailyWrites == 2

\* the values of max_size sinks are constructed with
Sizes == {1, 2}
\* the lengths of the records written: one byte, and more than any max_size
Lens == {1, 3}

VARIABLES
    \* ---- rotating_file_sink ----
    max_size,       \* _max_size
    max_files,      \* _max_files
    current_size,   \* _current_size
    fd,             \* _file_helper: "open" or "closed"
    disk,           \* the directory: file name -> [exists, data]
    fault,          \* the filesystem fault in force: [op, index]
    nwrites,        \* _sink_it calls so far; the next record's id
    pre,            \* the sink and the disk as they were before the last call
    last,           \* what the last call did
    nrot,           \* rotations completed since construction
    nfail,          \* _sink_it calls that threw since construction
    first,          \* the disk just before the first rotation
    attempt,        \* the disk just before the first of the calls that threw in a row
    \* ---- daily_file_sink ----
    calc,           \* FileNameCalc: "minute" (default) or "dateonly"
    rotation_h,     \* _rotation_h
    rotation_m,     \* _rotation_m
    rotation_tp,    \* _rotation_tp
    dfile,          \* _file_helper: [fd, name], the file it holds
    ddisk,          \* the directory: file name -> the record ids appended
    clock,          \* the latest reading of the system clock
    named_at,       \* the clock reading the open file was named from
    tp_from,        \* the clock reading _rotation_tp was computed from
    ncomp,          \* calls of _next_rotation_tp so far
    nopen,          \* rotations completed so far
    ndaily,         \* _sink_it calls so far; the next record's id
    dpre,           \* the sink as it was before the last call
    dlast,          \* what the last call did
    \* ---- simple_file_sink ----
    force_flush,    \* _force_flush
    sdisk,          \* the directory: file name -> [exists, data]
    nflush,         \* calls of _file_helper.flush() so far
    sflushed,       \* how many records of the file the last flush covered
    sops,           \* calls on the sink so far
    spre,           \* the sink as it was before the last call
    slast,          \* what the last call did
    \* ---- the file names derived at construction ----
    path,           \* the filename a sink is constructed with
    rparts,         \* rotating_file_sink: [base, ext] as the constructor set them
    dparts,         \* daily_file_sink: [base, ext] as the constructor set them
    cform,          \* the calc_filename overload called last: "member", "static"
    cindex,         \* the index of the last calc_filename call
    fname           \* the file name the last calc_filename call returned

rvars == <<max_size, max_files, current_size, fd, disk, fault, nwrites,
           pre, last, nrot, nfail, first, attempt>>

dvars == <<calc, rotation_h, rotation_m, rotation_tp, dfile, ddisk, clock,
           named_at, tp_from, ncomp, nopen, ndaily, dpre, dlast>>

svars == <<force_flush, sdisk, nflush, sflushed, sops, spre, slast>>

nvars == <<path, rparts, dparts, cform, cindex, fname>>

vars == <<rvars, dvars, svars, nvars>>

(***************************************************************************)
(* File names of the rotating sink.                                        *)
(***************************************************************************)
base_filename == "log"
extension == "txt"

\* calc_filename(filename, index, extension): "{}.{}.{}" or "{}.{}"
calc_filename_no_index(filename, index, ext) == <<filename, ".", ext>>

calc_filename(filename, index, ext) ==
    IF index # 0 THEN <<filename, ".", index, ".", ext>>
                 ELSE <<filename, ".", ext>>

Name(i) == calc_filename(base_filename, i, extension)

Names == {Name(i) : i \in 0..MaxBackups}

(***************************************************************************)
(* The file capability, on a disk d: file name -> [exists, data].  The     *)
(* data of a file is the sequence of the records appended to it, a record  *)
(* being <<id, length>>.                                                   *)
(***************************************************************************)
NoFile == [exists |-> FALSE, data |-> <<>>]
File(data) == [exists |-> TRUE, data |-> data]

RECURSIVE Bytes(_)
Bytes(data) == IF data = <<>> THEN 0 ELSE Head(data)[2] + Bytes(Tail(data))

\* FileHelper::file_exists(name)
file_exists(d, name) == d[name].exists

\* FileHelper::remove(name) when it returns 0
remove(d, name) == [d EXCEPT ![name] = NoFile]

\* FileHelper::rename(src, target) when it returns 0
rename(d, src, target) == [d EXCEPT ![target] = d[src], ![src] = NoFile]

\* file_helper::open(name, truncate): creates the file, empties it if truncate
open(d, name, truncate) ==
    [d EXCEPT ![name] = IF truncate \/ ~d[name].exists THEN File(<<>>) ELSE @]

\* file_helper::write(msg): appends to the open file
write(d, name, rec) == [d EXCEPT ![name] = File(Append(@.data, rec))]

\* file_helper::size()
size(d, name) == Bytes(d[name].data)

(***************************************************************************)
(* Faults: at most one operation of the file capability fails at a time.   *)
(***************************************************************************)
NoFault == [op |-> "none", index |-> 0]

Faults == {NoFault, [op |-> "reopen", index |-> 0]}
          \cup {[op |-> o, index |-> i] : o \in {"remove", "rename"}, i \in 1..MaxBackups}

\* FileHelper::remove(target) != 0, target being index i
remove_fails(flt, i) == flt.op = "remove" /\ flt.index = i

\* FileHelper::rename(src, target) != 0, target being index i
rename_fails(flt, i) == flt.op = "rename" /\ flt.index = i

\* file_helper::reopen(true) throws
reopen_fails(flt) == flt.op = "reopen"

(***************************************************************************)
(* _rotate().  The loop threads st = [disk, trace, err, at]: the disk, the *)
(* operations attempted so far as <<op, index>>, and the error thrown      *)
(* ("none" while none) with the index of the step that threw.              *)
(***************************************************************************)
Throw(st, op, i) ==
    [st EXCEPT !.trace = Append(@, <<op, i>>), !.err = op, !.at = i]

\* if (file_exists(target)) { if (remove(target) != 0) throw ... }
rotate_remove(st, i, flt) ==
    IF file_exists(st.disk, Name(i))
    THEN IF remove_fails(flt, i)
         THEN Throw(st, "remove", i)
         ELSE [st EXCEPT !.disk = remove(@, Name(i)),
                         !.trace = Append(@, <<"remove", i>>)]
    ELSE st

\* if (file_exists(src) && rename(src, target) != 0) throw ...
rotate_rename(st, i, flt) ==
    IF file_exists(st.disk, Name(i - 1))
    THEN IF rename_fails(flt, i)
         THEN Throw(st, "rename", i)
         ELSE [st EXCEPT !.disk = rename(@, Name(i - 1), Name(i)),
                         !.trace = Append(@, <<"rename", i>>)]
    ELSE st

\* one pass of the loop body, for target index i
rotate_step_rename_first(st, i, flt) ==
    LET s1 == rotate_rename(st, i, flt)
    IN  IF s1.err # "none" THEN s1 ELSE rotate_remove(s1, i, flt)

rotate_step(st, i, flt) ==
    LET s1 == rotate_remove(st, i, flt)
    IN  IF s1.err # "none" THEN s1 ELSE rotate_rename(s1, i, flt)

\* for (auto i = _max_files; i > 0; --i)
RECURSIVE rotate_loop_ascending(_, _, _)
rotate_loop_ascending(i, st, flt) ==
    IF i = 0 THEN st
    ELSE LET s1 == rotate_loop_ascending(i - 1, st, flt)
         IN  IF s1.err # "none" THEN s1 ELSE rotate_step(s1, i, flt)

RECURSIVE rotate_loop_stop_early(_, _, _)
rotate_loop_stop_early(i, st, flt) ==
    IF i <= 1 \/ st.err # "none" THEN st
    ELSE rotate_loop_stop_early(i - 1, rotate_step(st, i, flt), flt)

RECURSIVE rotate_loop_no_abort(_, _, _)
rotate_loop_no_abort(i, st, flt) ==
    IF i = 0 THEN st
    ELSE rotate_loop_no_abort(i - 1, rotate_rename(rotate_remove(st, i, flt), i, flt), flt)

RECURSIVE rotate_loop_keeps_one(_, _, _)
rotate_loop_keeps_one(i, st, flt) ==
    IF st.err # "none" THEN st
    ELSE IF i <= 1 THEN rotate_step(st, 1, flt)
    ELSE rotate_loop_keeps_one(i - 1, rotate_step(st, i, flt), flt)

RECURSIVE rotate_loop(_, _, _)
rotate_loop(i, st, flt) ==
    IF i = 0 \/ st.err # "none" THEN st
    ELSE rotate_loop(i - 1, rotate_step(st, i, flt), flt)

\* _file_helper.reopen(true)
rotate_reopen(st, flt) ==
    IF st.err # "none" THEN st
    ELSE IF reopen_fails(flt)
         THEN Throw(st, "reopen", 0)
         ELSE [st EXCEPT !.disk = open(@, Name(0), TRUE),
                         !.trace = Append(@, <<"reopen", 0>>)]

\* _rotate(): close, the descending loop, reopen truncated
rotate(d, n, flt) ==
    rotate_reopen(
        rotate_loop(n, [disk |-> d, trace |-> << <<"close", 0>> >>,
                        err |-> "none", at |-> 0], flt),
        flt)

(***************************************************************************)
(* rotating_file_sink::_sink_it(msg), msg.formatted.size() = len.          *)
(***************************************************************************)
\* if (_current_size > _max_size)
must_rotate_ge(sz, max) == sz >= max

must_rotate(sz, max) == sz > max

\* _current_size after the call: += size, and = size once _rotate() returned
size_after_keep(rot, ok, len, sz) == sz

size_after_reset_on_throw(rot, ok, len, sz) == IF rot THEN len ELSE sz

size_after_fresh(rot, ok, len, sz) == IF rot /\ ok THEN 0 ELSE sz

size_after(rot, ok, len, sz) == IF rot /\ ok THEN len ELSE sz

Snapshot == [disk |-> disk, current_size |-> current_size, fd |-> fd,
             err |-> last.err, flt |-> last.flt]

sink_it(len, flt) ==
    /\ nwrites < MaxWrites
    /\ flt.index <= max_files
    /\ fault' = flt
    /\ \E r \in {rotate(disk, max_files, flt)} :
         LET rec == <<nwrites + 1, len>>
             sz  == current_size + len
             rot == must_rotate(sz, max_size)
             err == IF rot THEN r.err ELSE IF fd = "open" THEN "none" ELSE "write"
             ok  == err = "none"
             d1  == IF rot THEN r.disk ELSE disk
         IN  /\ current_size' = size_after(rot, ok, len, sz)
             /\ fd' = IF rot THEN (IF ok THEN "open" ELSE "closed") ELSE fd
             /\ disk' = IF ok THEN write(d1, Name(0), rec) ELSE d1
             /\ last' = [op |-> "write", rec |-> rec, rotated |-> rot, err |-> err,
                         at |-> IF rot THEN r.at ELSE 0, flt |-> flt,
                         trace |-> (IF rot THEN r.trace ELSE <<>>)
                                   \o (IF ok THEN << <<"write", 0>> >> ELSE <<>>)]
             /\ nrot' = IF rot /\ ok THEN nrot + 1 ELSE nrot
             /\ nfail' = IF ok THEN nfail ELSE nfail + 1
             /\ first' = IF rot /\ ok /\ nrot = 0 /\ nfail = 0 THEN disk ELSE first
             /\ attempt' = IF ~ok /\ last.err = "none" THEN disk ELSE attempt
    /\ pre' = Snapshot
    /\ nwrites' = nwrites + 1
    /\ UNCHANGED <<max_size, max_files>>
    /\ UNCHANGED <<dvars, svars, nvars>>

(***************************************************************************)
(* Construction: the directory holds any set of the sink's files; the      *)
(* constructor opens base.ext for appending and probes its size once.      *)
(***************************************************************************)
\* what a file found at index i before construction holds
OldData(i, n) == << <<0 - i - 1, n>> >>

Disks ==
    {d \in [Names -> {NoFile} \cup {File(OldData(i, n)) : i \in 0..MaxBackups,
                                                          n \in Lens}] :
        \A i \in 0..MaxBackups :
            d[Name(i)].exists => /\ d[Name(i)].data[1][1] = 0 - i - 1
                                 /\ (i > 0 => d[Name(i)].data[1][2] = 1)}

NoCall == [op |-> "ctor", rec |-> <<0, 0>>, rotated |-> FALSE, err |-> "none",
           at |-> 0, flt |-> NoFault, trace |-> <<>>]

rotating_file_sink(d0, maxsize, maxfiles) ==
    /\ max_size = maxsize
    /\ max_files = maxfiles
    /\ disk = open(d0, Name(0), FALSE)
    /\ current_size = size(open(d0, Name(0), FALSE), Name(0))
    /\ fd = "open"

\* no daily sink exists
DailyUnbuilt ==
    /\ calc = "none" /\ rotation_h = 0 /\ rotation_m = 0 /\ rotation_tp = 0
    /\ dfile = <<>> /\ ddisk = <<>> /\ clock = 0 /\ named_at = 0 /\ tp_from = 0
    /\ ncomp = 0 /\ nopen = 0 /\ ndaily = 0 /\ dpre = <<>>

\* the daily sink is not constructed
DailyIdle == DailyUnbuilt /\ dlast = <<>>

\* the simple sink is not constructed
SimpleIdle ==
    /\ force_flush = FALSE /\ sdisk = <<>> /\ nflush = 0 /\ sflushed = 0
    /\ sops = 0 /\ spre = <<>> /\ slast = <<>>

\* no file name is being derived
NamesIdle ==
    /\ path = <<>> /\ rparts = <<>> /\ dparts = <<>> /\ cform = "none" /\ cindex = 0 /\ fname = <<>>

RotatingInit ==
    /\ DailyIdle
    /\ SimpleIdle
    /\ NamesIdle
    /\ \E d0 \in Disks, maxsize \in Sizes, maxfiles \in 0..MaxBackups :
          rotating_file_sink(d0, maxsize, maxfiles)
    /\ fault = NoFault
    /\ nwrites = 0
    /\ last = NoCall
    /\ pre = Snapshot
    /\ nrot = 0
    /\ nfail = 0
    /\ first = disk
    /\ attempt = disk

RotatingNext ==
    \E len \in Lens, flt \in Faults : sink_it(len, flt)

SpecRotating == RotatingInit /\ [][RotatingNext]_vars

(***************************************************************************)
(* The calendar capability.  An instant is a number of clock ticks since   *)
(* local midnight of day 0; a time_t is a number of seconds.               *)
(***************************************************************************)
\* the civil date of day 0
EpochDate == <<2023, 12, 31>>

IsLeap(y) == (y % 4 = 0 /\ y % 100 # 0) \/ y % 400 = 0

DaysInMonth(y, m) ==
    IF m = 2 THEN (IF IsLeap(y) THEN 29 ELSE 28)
    ELSE IF m \in {4, 6, 9, 11} THEN 30 ELSE 31

NextDate(c) ==
    IF c[3] < DaysInMonth(c[1], c[2]) THEN <<c[1], c[2], c[3] + 1>>
    ELSE IF c[2] < 12 THEN <<c[1], c[2] + 1, 1>>
    ELSE <<c[1] + 1, 1, 1>>

RECURSIVE CivilOfDay(_)
CivilOfDay(n) == IF n = 0 THEN EpochDate ELSE NextDate(CivilOfDay(n - 1))

DayOfCivil(c) == CHOOSE n \in 0..(MaxDay + 2) : CivilOfDay(n) = c

SecPerDay == 24 * 60 * 60

\* std::chrono::system_clock::to_time_t(now): whole seconds
to_time_t(t) == t \div TicksPerSec

\* std::chrono::system_clock::from_time_t(s)
from_time_t(sec) == sec * TicksPerSec

\* std::chrono::hours(n)
hours(n) == n * 60 * 60 * TicksPerSec

\* spdlog::details::os::localtime(time_t)
localtime(sec) ==
    LET c == CivilOfDay(sec \div SecPerDay)
        r == sec % SecPerDay
    IN  [tm_year |-> c[1] - 1900, tm_mon |-> c[2] - 1, tm_mday |-> c[3],
         tm_hour |-> r \div 3600, tm_min |-> (r % 3600) \div 60, tm_sec |-> r % 60]

\* std::mktime(&date)
mktime(tm) ==
    DayOfCivil(<<tm.tm_year + 1900, tm.tm_mon + 1, tm.tm_mday>>) * SecPerDay
        + tm.tm_hour * 3600 + tm.tm_min * 60 + tm.tm_sec

(***************************************************************************)
(* daily_file_sink::_next_rotation_tp(), now being its clock reading.      *)
(***************************************************************************)
next_rotation_tp_ge(now, h, m) ==
    LET date == [localtime(to_time_t(now)) EXCEPT
                     !.tm_hour = h, !.tm_min = m, !.tm_sec = 0]
        rotation_time == from_time_t(mktime(date))
    IN  IF rotation_time >= now THEN rotation_time
        ELSE rotation_time + hours(24)

next_rotation_tp(now, h, m) ==
    LET date == [localtime(to_time_t(now)) EXCEPT
                     !.tm_hour = h, !.tm_min = m, !.tm_sec = 0]
        rotation_time == from_time_t(mktime(date))
    IN  IF rotation_time > now THEN rotation_time
        ELSE rotation_time + hours(24)

(***************************************************************************)
(* The daily file names: "{}_{:04d}-{:02d}-{:02d}_{:02d}-{:02d}.{}" and    *)
(* "{}_{:04d}-{:02d}-{:02d}.{}", a name being the sequence of its pieces.  *)
(***************************************************************************)
Digit(k) == <<"0", "1", "2", "3", "4", "5", "6", "7", "8", "9">>[k + 1]

\* {:0wd}
RECURSIVE Pad(_, _)
Pad(n, w) == IF w = 0 THEN <<>> ELSE Pad(n \div 10, w - 1) \o <<Digit(n % 10)>>

Date(tm) ==
    Pad(tm.tm_year + 1900, 4) \o <<"-">> \o Pad(tm.tm_mon + 1, 2)
        \o <<"-">> \o Pad(tm.tm_mday, 2)

\* default_daily_file_name_calculator::calc_filename, tm = localtime()
default_calc_filename_no_time(basename, ext, tm) ==
    <<basename, "_">> \o Date(tm) \o <<"_">> \o Pad(0, 2)
        \o <<"-">> \o Pad(0, 2) \o <<".", ext>>

default_calc_filename(basename, ext, tm) ==
    <<basename, "_">> \o Date(tm) \o <<"_">> \o Pad(tm.tm_hour, 2)
        \o <<"-">> \o Pad(tm.tm_min, 2) \o <<".", ext>>

\* dateonly_daily_file_name_calculator::calc_filename, tm = localtime()
dateonly_calc_filename(basename, ext, tm) ==
    <<basename, "_">> \o Date(tm) \o <<".", ext>>

daily_base == "daily"
daily_ext == "txt"

\* FileNameCalc::calc_filename(_base_filename, _extension), read at instant t
FileNameCalc(c, t) ==
    IF c = "dateonly"
    THEN dateonly_calc_filename(daily_base, daily_ext, localtime(to_time_t(t)))
    ELSE default_calc_filename(daily_base, daily_ext, localtime(to_time_t(t)))

(***************************************************************************)
(* Clock readings: on the days 0..MaxDay, the tick before, at and after    *)
(* the rotation time, the tick before and at midnight, and for a rotation  *)
(* at midnight also the second before and after it.                        *)
(***************************************************************************)
RotationTimes == {<<0, 0>>, <<12, 30>>, <<23, 59>>}

\* <<second of the day, ticks from it>>
Marks(h, m) ==
    {<<h * 3600 + m * 60, o>> : o \in {-1, 0, 1}}
        \cup {<<0, -1>>, <<0, 0>>}
        \cup (IF h = 0 /\ m = 0 THEN {<<0, 0 - TicksPerSec>>, <<0, TicksPerSec>>} ELSE {})

Horizon == (MaxDay + 1) * SecPerDay * TicksPerSec

Instants(h, m) ==
    {t \in {(d * SecPerDay + k[1]) * TicksPerSec + k[2] :
                d \in 0..MaxDay, k \in Marks(h, m)} : t >= 0 /\ t < Horizon}

\* ticks the clock advanced since the previous reading of the same call
Drifts == {0, 1}

DailyNames(c, h, m) == {FileNameCalc(c, t + d) : t \in Instants(h, m), d \in Drifts}

(***************************************************************************)
(* daily_file_sink::_sink_it(msg).  The call reads the clock up to three   *)
(* times: t1 for the comparison, t2 inside calc_filename, t3 inside        *)
(* _next_rotation_tp.                                                      *)
(***************************************************************************)
\* if (std::chrono::system_clock::now() >= _rotation_tp)
rotation_due_gt(now, tp) == now > tp

rotation_due(now, tp) == now >= tp

\* _rotation_tp = _next_rotation_tp() runs once the new file is open
recomputes_always(rot, ok) == TRUE

recomputes_on_attempt(rot, ok) == rot

recomputes(rot, ok) == rot /\ ok

DailySnapshot ==
    [tp |-> rotation_tp, file |-> dfile, disk |-> ddisk, clock |-> clock,
     named_at |-> named_at, tp_from |-> tp_from, ncomp |-> ncomp, nopen |-> nopen]

daily_sink_it(t1, d2, d3, openfails) ==
    /\ ndaily < MaxDailyWrites
    /\ clock <= t1
    /\ d2 + d3 \in Drifts
    /\ \E rot \in {rotation_due(t1, rotation_tp)} :
         /\ ~rot => d2 = 0 /\ d3 = 0 /\ ~openfails
         /\ (rot /\ openfails) => d3 = 0
         /\ LET t2  == t1 + d2
                t3  == t2 + d3
                ok  == IF rot THEN ~openfails ELSE dfile.fd = "open"
                rec == <<ndaily + 1, 1>>
            IN  /\ \E name \in {IF rot /\ ok THEN FileNameCalc(calc, t2) ELSE dfile.name} :
                     /\ dfile' = [fd |-> IF ok THEN "open" ELSE "closed", name |-> name]
                     /\ ddisk' = IF ok
                                 THEN write(IF rot THEN open(ddisk, name, FALSE) ELSE ddisk,
                                            name, rec)
                                 ELSE ddisk
                /\ rotation_tp' = IF recomputes(rot, ok)
                                  THEN next_rotation_tp(t3, rotation_h, rotation_m)
                                  ELSE rotation_tp
                /\ tp_from' = IF recomputes(rot, ok) THEN t3 ELSE tp_from
                /\ ncomp' = IF recomputes(rot, ok) THEN ncomp + 1 ELSE ncomp
                /\ named_at' = IF rot /\ ok THEN t2 ELSE named_at
                /\ nopen' = IF rot /\ ok THEN nopen + 1 ELSE nopen
                /\ clock' = t3
                /\ dlast' = [op |-> "write", rec |-> rec, rotated |-> rot,
                             err |-> IF ok THEN "none" ELSE IF rot THEN "open" ELSE "write",
                             rd_cmp |-> t1, rd_name |-> t2, rd_next |-> t3]
    /\ dpre' = DailySnapshot
    /\ ndaily' = ndaily + 1
    /\ UNCHANGED <<calc, rotation_h, rotation_m>>
    /\ UNCHANGED <<rvars, svars, nvars>>

\* daily_file_sink(filename, rotation_hour, rotation_minute): ta is the
\* clock reading of _next_rotation_tp, tb the one of calc_filename
daily_members(c, h, m, ta, tb) ==
    [calc        |-> c,
     rotation_h  |-> h,
     rotation_m  |-> m,
     rotation_tp |-> next_rotation_tp(ta, h, m),
     tp_from     |-> ta,
     named_at    |-> tb,
     clock       |-> tb,
     dfile       |-> [fd |-> "open", name |-> FileNameCalc(c, tb)],
     ddisk       |-> open([n \in DailyNames(c, h, m) |-> NoFile],
                          FileNameCalc(c, tb), FALSE)]

daily_file_sink(c, h, m, ta, tb) ==
    \E s \in {daily_members(c, h, m, ta, tb)} :
        /\ calc = s.calc
        /\ rotation_h = s.rotation_h
        /\ rotation_m = s.rotation_m
        /\ rotation_tp = s.rotation_tp
        /\ tp_from = s.tp_from
        /\ named_at = s.named_at
        /\ clock = s.clock
        /\ dfile = s.dfile
        /\ ddisk = s.ddisk

\* the rotating sink is not constructed
RotatingIdle ==
    /\ max_size = 0 /\ max_files = 0 /\ current_size = 0 /\ fd = "none"
    /\ disk = <<>> /\ fault = NoFault /\ nwrites = 0 /\ pre = <<>> /\ last = <<>>
    /\ nrot = 0 /\ nfail = 0 /\ first = <<>> /\ attempt = <<>>

DailyInit ==
    /\ RotatingIdle
    /\ SimpleIdle
    /\ NamesIdle
    /\ \E c \in {"minute", "dateonly"}, hm \in RotationTimes :
          \E ta \in Instants(hm[1], hm[2]), d \in Drifts :
              /\ ta < SecPerDay * TicksPerSec
              /\ daily_file_sink(c, hm[1], hm[2], ta, ta + d)
    /\ ncomp = 1
    /\ nopen = 0
    /\ ndaily = 0
    /\ dlast = [op |-> "ctor", rec |-> <<0, 0>>, rotated |-> FALSE, err |-> "none",
                rd_cmp |-> tp_from, rd_name |-> named_at, rd_next |-> tp_from]
    /\ dpre = DailySnapshot

DailyNext ==
    /\ ndaily < MaxDailyWrites
    /\ \E t1 \in {t \in Instants(rotation_h, rotation_m) : clock <= t} :
         \E d2, d3 \in Drifts, openfails \in BOOLEAN :
             daily_sink_it(t1, d2, d3, openfails)

SpecDaily == DailyInit /\ [][DailyNext]_vars

(***************************************************************************)
(* Construction of the daily sink with any rotation time, through either   *)
(* constructor: (filename, hour, minute) or (base, extension, hour,        *)
(* minute).  A constructor that throws leaves no sink behind.              *)
(***************************************************************************)
RotationHours == {-1, 0, 12, 23, 24}
RotationMinutes == {-1, 0, 30, 59, 60}

\* if (rotation_hour < 0 || rotation_hour > 23 ||
\*     rotation_minute < 0 || rotation_minute > 59) throw spdlog_ex(...)
invalid_rotation_time_off_by_one(h, m) == h < 0 \/ h > 24 \/ m < 0 \/ m > 60

invalid_rotation_time(h, m) == h < 0 \/ h > 23 \/ m < 0 \/ m > 59

daily_ctor(form, c, h, m, ta, tb) ==
    /\ calc = "none"
    /\ UNCHANGED <<nopen, ndaily>>
    /\ IF invalid_rotation_time(h, m)
       THEN /\ dlast' = [op |-> "ctor", form |-> form, hour |-> h, minute |-> m,
                         err |-> "config"]
            /\ UNCHANGED <<calc, rotation_h, rotation_m, rotation_tp, dfile, ddisk,
                           clock, named_at, tp_from, ncomp, dpre>>
       ELSE /\ \E s \in {daily_members(c, h, m, ta, tb)} :
                  /\ calc' = s.calc
                  /\ rotation_h' = s.rotation_h
                  /\ rotation_m' = s.rotation_m
                  /\ rotation_tp' = s.rotation_tp
                  /\ tp_from' = s.tp_from
                  /\ named_at' = s.named_at
                  /\ clock' = s.clock
                  /\ dfile' = s.dfile
                  /\ ddisk' = s.ddisk
            /\ ncomp' = ncomp + 1
            /\ dlast' = [op |-> "ctor", form |-> form, hour |-> h, minute |-> m,
                         err |-> "none"]
            /\ dpre' = DailySnapshot'
    /\ UNCHANGED <<rvars, svars, nvars>>

CtorInit ==
    /\ RotatingIdle
    /\ SimpleIdle
    /\ NamesIdle
    /\ DailyUnbuilt
    /\ dlast = [op |-> "none", form |-> "none", hour |-> 0, minute |-> 0,
                err |-> "none"]

CtorNext ==
    \E form \in {"filename", "base_ext"}, c \in {"minute", "dateonly"},
       h \in RotationHours, m \in RotationMinutes, d \in Drifts :
        \E ta \in IF invalid_rotation_time(h, m) THEN {0}
                   ELSE {t \in Instants(h, m) : t < SecPerDay * TicksPerSec} :
            daily_ctor(form, c, h, m, ta, ta + d)

SpecCtor == CtorInit /\ [][CtorNext]_vars

(***************************************************************************)
(* simple_file_sink: one file, no rotation.  file_helper::flush() hands    *)
(* everything written so far to the operating system.                      *)
(***************************************************************************)
\* number of calls on the simple sink
MaxSimpleOps == 4

simple_name == "simple.txt"

\* if (_force_flush) _file_helper.flush();
flushes_on_write_always(force) == 1

flushes_on_write(force) == IF force THEN 1 ELSE 0

SimpleSnapshot ==
    [force |-> force_flush, disk |-> sdisk, nflush |-> nflush, sflushed |-> sflushed]

\* simple_file_sink(filename, truncate): _force_flush(false), open
simple_file_sink(d0, truncate) ==
    /\ force_flush = FALSE
    /\ sdisk = open(d0, simple_name, truncate)

\* set_force_flush(force_flush)
set_force_flush(b) ==
    /\ sops < MaxSimpleOps
    /\ force_flush' = b
    /\ slast' = [op |-> "set_force_flush", rec |-> <<0, 0>>, trace |-> <<>>]
    /\ spre' = SimpleSnapshot
    /\ sops' = sops + 1
    /\ UNCHANGED <<sdisk, nflush, sflushed>>
    /\ UNCHANGED <<rvars, dvars, nvars>>

\* _sink_it(msg): write, then flush if _force_flush
simple_sink_it ==
    /\ sops < MaxSimpleOps
    /\ LET rec == <<sops + 1, 1>>
           n   == flushes_on_write(force_flush)
           d1  == write(sdisk, simple_name, rec)
       IN  /\ sdisk' = d1
           /\ nflush' = nflush + n
           /\ sflushed' = IF n > 0 THEN Len(d1[simple_name].data) ELSE sflushed
           /\ slast' = [op |-> "write", rec |-> rec,
                        trace |-> <<"write">> \o [k \in 1..n |-> "flush"]]
    /\ spre' = SimpleSnapshot
    /\ sops' = sops + 1
    /\ UNCHANGED force_flush
    /\ UNCHANGED <<rvars, dvars, nvars>>

\* _flush(): _file_helper.flush()
simple_flush ==
    /\ sops < MaxSimpleOps
    /\ nflush' = nflush + 1
    /\ sflushed' = Len(sdisk[simple_name].data)
    /\ slast' = [op |-> "flush", rec |-> <<0, 0>>, trace |-> <<"flush">>]
    /\ spre' = SimpleSnapshot
    /\ sops' = sops + 1
    /\ UNCHANGED <<force_flush, sdisk>>
    /\ UNCHANGED <<rvars, dvars, nvars>>

SimpleInit ==
    /\ RotatingIdle
    /\ DailyIdle
    /\ NamesIdle
    /\ \E existing \in {NoFile, File(<< <<0, 1>> >>)}, truncate \in BOOLEAN :
          simple_file_sink([n \in {simple_name} |-> existing], truncate)
    /\ nflush = 0
    /\ sflushed = 0
    /\ sops = 0
    /\ slast = [op |-> "ctor", rec |-> <<0, 0>>, trace |-> <<>>]
    /\ spre = SimpleSnapshot

SimpleNext ==
    \/ simple_sink_it
    \/ simple_flush
    \/ \E b \in BOOLEAN : set_force_flush(b)

SpecSimple == SimpleInit /\ [][SimpleNext]_vars

(***************************************************************************)
(* The file names derived at construction.  A string is the sequence of    *)
(* its characters; positions are size_t, counted from 0, npos for "not     *)
(* found".                                                                 *)
(***************************************************************************)
\* longest filename a sink is constructed with
MaxPathLen == 5
\* largest index calc_filename is called with
MaxIndex == 11
\* bits of size_t
SizeBits == 4

npos == 2^SizeBits - 1

PathChars == {"a", ".", "/", "\\"}

\* a filename does not end in a path separator
Paths ==
    {p \in UNION {[1..n -> PathChars] : n \in 1..MaxPathLen} :
        p[Len(p)] \notin {"/", "\\"}}

Min(a, b) == IF a < b THEN a ELSE b

\* filename.find_last_of(ch)
find_last_of(str, ch) ==
    IF \E k \in 1..Len(str) : str[k] = ch
    THEN (CHOOSE k \in 1..Len(str) :
              /\ str[k] = ch
              /\ \A j \in (k + 1)..Len(str) : str[j] # ch) - 1
    ELSE npos

\* filename.substr(pos, n), pos <= size()
substr(str, pos, n) == SubSeq(str, pos + 1, pos + Min(n, Len(str) - pos))

\* rotating_file_sink(filename, ...): _base_filename and _extension
rotating_split(filename) ==
    LET ndx   == find_last_of(filename, ".")
        ndxs1 == find_last_of(filename, "\\")
        ndxs2 == find_last_of(filename, "/")
    IN  IF ndx = npos /\ (ndx < ndxs1 \/ ndx < ndxs2)
        THEN [base |-> filename, ext |-> <<"l", "o", "g">>]
        ELSE [base |-> substr(filename, 0, ndx),
              ext  |-> substr(filename, (ndx + 1) % 2^SizeBits, npos)]

\* daily_file_sink(filename, ...): _base_filename and _extension
daily_split(filename) ==
    LET ndx   == find_last_of(filename, ".")
        ndxs1 == find_last_of(filename, "\\")
        ndxs2 == find_last_of(filename, "/")
    IN  IF ndx = npos /\ (ndxs2 < ndx \/ ndxs2 < ndx)
        THEN [base |-> filename, ext |-> <<"t", "x", "t">>]
        ELSE [base |-> substr(filename, 0, ndx),
              ext  |-> substr(filename, (ndx + 1) % 2^SizeBits, npos)]

\* details::file_helper::split_by_extenstion(fname): the extension starts at
\* the last dot of the filename component and includes it
split_by_extenstion(str) ==
    LET dot == find_last_of(str, ".")
        s1  == find_last_of(str, "\\")
        s2  == find_last_of(str, "/")
    IN  IF dot = npos \/ (s1 # npos /\ s1 > dot) \/ (s2 # npos /\ s2 > dot)
        THEN [base |-> str, ext |-> <<>>]
        ELSE [base |-> substr(str, 0, dot), ext |-> substr(str, dot, npos)]

\* calc_filename(filename, index): "{}.{}{}" or "{}"
calc_filename_by_ext(filename, i) ==
    IF i # 0
    THEN LET sp == split_by_extenstion(filename)
         IN  <<sp.base, ".", i, sp.ext>>
    ELSE <<filename>>

\* {} of an unsigned integer
RECURSIVE Dec(_)
Dec(n) == IF n < 10 THEN <<Digit(n)>> ELSE Dec(n \div 10) \o <<Digit(n % 10)>>

\* w.str(): the characters the format calls wrote
fmt_str(p) ==
    CASE Len(p) = 1 -> p[1]
      [] Len(p) = 3 -> p[1] \o <<p[2]>> \o p[3]
      [] Len(p) = 4 -> p[1] \o <<p[2]>> \o Dec(p[3]) \o p[4]
      [] Len(p) = 5 -> p[1] \o <<p[2]>> \o Dec(p[3]) \o <<p[4]>> \o p[5]

NoParts == [done |-> FALSE, base |-> <<>>, ext |-> <<>>]

Done(parts) == [done |-> TRUE, base |-> parts.base, ext |-> parts.ext]

\* rotating_file_sink(filename, max_size, max_files), lines 78-92
rotating_ctor_split ==
    /\ ~rparts.done
    /\ rparts' = Done(rotating_split(path))
    /\ UNCHANGED <<path, dparts, cform, cindex, fname>>
    /\ UNCHANGED <<rvars, dvars, svars>>

\* daily_file_sink(filename, rotation_hour, rotation_minute), lines 247-261
daily_ctor_split ==
    /\ ~dparts.done
    /\ dparts' = Done(daily_split(path))
    /\ UNCHANGED <<path, rparts, cform, cindex, fname>>
    /\ UNCHANGED <<rvars, dvars, svars>>

\* calc_filename(_base_filename, i, _extension), as _rotate() and the
\* constructor call it
calc_member(i) ==
    /\ rparts.done
    /\ cform' = "member"
    /\ cindex' = i
    /\ fname' = fmt_str(calc_filename(rparts.base, i, rparts.ext))
    /\ UNCHANGED <<path, rparts, dparts>>
    /\ UNCHANGED <<rvars, dvars, svars>>

\* rotating_file_sink::calc_filename(filename, i), the public overload
calc_static(i) ==
    /\ cform' = "static"
    /\ cindex' = i
    /\ fname' = fmt_str(calc_filename_by_ext(path, i))
    /\ UNCHANGED <<path, rparts, dparts>>
    /\ UNCHANGED <<rvars, dvars, svars>>

NamesInit ==
    /\ RotatingIdle
    /\ DailyIdle
    /\ SimpleIdle
    /\ path \in Paths
    /\ rparts = NoParts
    /\ dparts = NoParts
    /\ cform = "none"
    /\ cindex = 0
    /\ fname = <<>>

NamesNext ==
    \/ rotating_ctor_split
    \/ daily_ctor_split
    \/ \E i \in 0..MaxIndex : calc_member(i)
    \/ \E i \in 0..MaxIndex : calc_static(i)

SpecNames == NamesInit /\ [][NamesNext]_vars

(***************************************************************************)
(* Properties of the rotating sink.  They read the last call through pre   *)
(* (the state before it) and last (what it did).                           *)
(***************************************************************************)
At(d, i) == d[Name(i)]

InSeq(x, sq) == \E k \in 1..Len(sq) : sq[k] = x

Count(x, sq) == Cardinality({k \in 1..Len(sq) : sq[k] = x})

\* some file of the directory holds exactly this data
OnDisk(d, data) == \E i \in 0..MaxBackups : At(d, i).exists /\ At(d, i).data = data

\* some file of the directory holds this record
Stored(d, rec) == \E i \in 0..MaxBackups : InSeq(rec, At(d, i).data)

Wrote == last.op = "write"
Ok == last.err = "none"
Rotated == Wrote /\ last.rotated /\ Ok
RotationFailed == Wrote /\ last.rotated /\ ~Ok

\* the directory after the operations of a trace, each of them succeeding
RECURSIVE Replay(_, _)
Replay(d, tr) ==
    IF tr = <<>> THEN d
    ELSE LET op == Head(tr)[1]
             i  == Head(tr)[2]
             d1 == CASE op = "remove" -> remove(d, Name(i))
                     [] op = "rename" -> rename(d, Name(i - 1), Name(i))
                     [] op = "reopen" -> open(d, Name(0), TRUE)
                     [] OTHER -> d
         IN  Replay(d1, Tail(tr))

\* the sink never appends through a closed file: a closed file means a
\* rotation threw, and then _current_size is above _max_size
ClosedMeansOversize ==
    /\ fd = "closed" => current_size > max_size
    /\ last.err # "write"

\* C1: a write whose new total exceeds max_size rotates exactly once before
\* the record is appended, resets current_size to the record's length and
\* makes the record the only content of the truncated active file; a write
\* whose total stays within max_size (equality included) does not rotate
\* and appends the record to the active file.
C1_WriteRotatesOnceBeforeAppend ==
    Wrote =>
        /\ last.rotated = (pre.current_size + last.rec[2] > max_size)
        /\ last.rotated =>
              /\ Count(<<"close", 0>>, last.trace) = 1
              /\ last.trace[1] = <<"close", 0>>
              /\ Count(<<"reopen", 0>>, last.trace) <= 1
        /\ Rotated =>
              /\ current_size = last.rec[2]
              /\ At(disk, 0) = File(<<last.rec>>)
              /\ \A i \in 1..MaxBackups : ~InSeq(last.rec, At(disk, i).data)
              /\ Len(last.trace) >= 3
              /\ last.trace[Len(last.trace)] = <<"write", 0>>
              /\ last.trace[Len(last.trace) - 1] = <<"reopen", 0>>
        /\ ~last.rotated =>
              /\ Ok
              /\ last.trace = << <<"write", 0>> >>
              /\ current_size = pre.current_size + last.rec[2]
              /\ At(disk, 0) = File(Append(At(pre.disk, 0).data, last.rec))
              /\ \A i \in 1..MaxBackups : At(disk, i) = At(pre.disk, i)

\* a rotation triggered by the cumulative size, and a write that exactly fills
C1_Witness ==
    /\ Rotated
    /\ pre.current_size > 0
    /\ pre.current_size <= max_size
    /\ max_files >= 1
    /\ At(disk, 1).exists

\* C2: after a successful rotation with max_files >= 1 index 1 holds what the
\* active file held, every index i in 2..max_files holds what index i-1 held,
\* what index max_files held is on no file any more, and nothing but index
\* max_files was ever removed.
C2_BackupChainShifts ==
    (Rotated /\ max_files >= 1) =>
        /\ \A i \in 1..max_files : At(disk, i) = At(pre.disk, i - 1)
        /\ (At(pre.disk, max_files).exists /\ At(pre.disk, max_files).data # <<>>)
              => ~OnDisk(disk, At(pre.disk, max_files).data)
        /\ \A k \in 1..Len(last.trace) :
              last.trace[k][1] = "remove" => last.trace[k][2] = max_files
        /\ \A i \in (max_files + 1)..MaxBackups : At(disk, i) = At(pre.disk, i)

\* a rotation over a full chain of two backups
C2_Witness ==
    /\ Rotated
    /\ max_files >= 2
    /\ \A i \in 0..max_files : At(pre.disk, i).exists /\ At(pre.disk, i).data # <<>>

\* the file of the highest index in use among the sink's own 0..max_files
Oldest(d) ==
    At(d, CHOOSE i \in 0..max_files :
              /\ At(d, i).exists
              /\ \A j \in (i + 1)..max_files : ~At(d, j).exists)

\* max_files rotations completed and no call threw since construction
AfterMaxFilesRotations == max_files >= 1 /\ nrot = max_files /\ nfail = 0

\* C3 as stated: after max_files successive rotations the backups
\* 1..max_files exist and the oldest content that was on disk before them
\* is on no file any more.
C3_AsStated ==
    AfterMaxFilesRotations =>
        /\ \A i \in 1..max_files : At(disk, i).exists
        /\ Oldest(first).data # <<>> => ~OnDisk(disk, Oldest(first).data)

\* C3, amended: after max_files successive rotations the backups
\* 1..max_files all exist, index max_files holds what the active file held
\* before the first of them, and whatever was in a backup 1..max_files before
\* them is on no file any more; indices above max_files are not touched.
C3_RetentionBound ==
    AfterMaxFilesRotations =>
        /\ \A i \in 1..max_files : At(disk, i).exists
        /\ At(disk, max_files) = At(first, 0)
        /\ \A i \in 1..max_files :
              At(first, i).exists => ~OnDisk(disk, At(first, i).data)
        /\ \A i \in (max_files + 1)..MaxBackups : At(disk, i) = At(first, i)

\* two rotations over a chain that was full before them
C3_Witness ==
    /\ AfterMaxFilesRotations
    /\ max_files >= 2
    /\ \A i \in 1..max_files : At(first, i).exists

\* C4: when a remove or a rename fails the write throws, the pass ends at
\* that operation, the directory is what the operations before it made of
\* it, every index below the failing step is untouched and the record is
\* stored nowhere.
C4_FailureStopsRotation ==
    (RotationFailed /\ last.err \in {"remove", "rename"}) =>
        /\ last.trace[Len(last.trace)] = <<last.err, last.at>>
        /\ Count(<<last.err, last.at>>, last.trace) = 1
        /\ \A k \in 1..Len(last.trace) :
              last.trace[k][1] \in {"remove", "rename"} => last.trace[k][2] >= last.at
        /\ ~InSeq(<<"reopen", 0>>, last.trace) /\ ~InSeq(<<"write", 0>>, last.trace)
        /\ disk = Replay(pre.disk, SubSeq(last.trace, 1, Len(last.trace) - 1))
        /\ \A i \in 0..(last.at - 1) : At(disk, i) = At(pre.disk, i)
        /\ ~Stored(disk, last.rec)
        /\ fd = "closed"

\* a rename fails in the middle of the chain, after a higher step was done
C4_Witness ==
    /\ RotationFailed
    /\ last.err = "rename"
    /\ last.at < max_files
    /\ InSeq(<<"rename", last.at + 1>>, last.trace)
    /\ At(pre.disk, 0).exists

\* C5: a failed rotation leaves the content of the active file on disk
\* unchanged; while the same fault lasts every later write throws from the
\* rotation again and stores nothing; a write after the fault is gone
\* succeeds.
C5_ErrorPersistsWithFault ==
    /\ RotationFailed =>
          /\ ~Stored(disk, last.rec)
          /\ At(pre.disk, 0).exists =>
                \/ At(disk, 0) = At(pre.disk, 0)
                \/ max_files >= 1 /\ At(disk, 1) = At(pre.disk, 0)
    /\ (Wrote /\ pre.err # "none" /\ last.flt = pre.flt) =>
          /\ RotationFailed
          /\ last.err = pre.err
    /\ (Wrote /\ pre.err # "none" /\ last.flt = NoFault) =>
          /\ Rotated
          /\ At(disk, 0) = File(<<last.rec>>)

\* a write throws twice under the same fault, then succeeds without it
C5_Witness ==
    /\ Wrote /\ pre.err # "none" /\ last.flt = NoFault
    /\ nfail >= 2

\* C6 as stated: after a successful rotation current_size <= max_size
C6_AsStated ==
    Rotated => current_size <= max_size

\* C6, amended: after a successful rotation current_size is the length of
\* the record that triggered it, so it is within max_size exactly when that
\* record is; after a successful write that did not rotate it is within
\* max_size.
C6_SizeAfterRotation ==
    /\ Rotated => /\ current_size = last.rec[2]
                  /\ (last.rec[2] <= max_size => current_size <= max_size)
    /\ (Wrote /\ Ok /\ ~last.rotated) => current_size <= max_size

\* a rotation triggered by a record that fits in max_size
C6_Witness ==
    /\ Rotated
    /\ last.rec[2] <= max_size
    /\ pre.current_size > 0

(***************************************************************************)
(* Properties of the daily sink.  They read the last call through dpre     *)
(* (the sink before it) and dlast (what it did and what the clock read).   *)
(***************************************************************************)
\* the instant of a civil date and time
T(y, mo, d, h, mi, sec) ==
    from_time_t(mktime([tm_year |-> y - 1900, tm_mon |-> mo - 1, tm_mday |-> d,
                        tm_hour |-> h, tm_min |-> mi, tm_sec |-> sec]))

DayTicks == SecPerDay * TicksPerSec

\* the calendar day of an instant, and its tick within that day
DayOf(t) == t \div DayTicks
TickOfDay(t) == t % DayTicks

\* rotation_h:rotation_m:00 on the calendar day of instant t
Candidate(t) ==
    DayOf(t) * DayTicks + (rotation_h * 3600 + rotation_m * 60) * TicksPerSec

\* reading a name back: the number its digits spell
Val(ch) == CHOOSE k \in 0..9 : Digit(k) = ch

RECURSIVE Num(_)
Num(ds) ==
    IF ds = <<>> THEN 0
    ELSE Num(SubSeq(ds, 1, Len(ds) - 1)) * 10 + Val(ds[Len(ds)])

NameDate(n) == <<Num(SubSeq(n, 3, 6)), Num(SubSeq(n, 8, 9)), Num(SubSeq(n, 11, 12))>>
NameTime(n) == <<Num(SubSeq(n, 14, 15)), Num(SubSeq(n, 17, 18))>>

\* the calendar fields a name is made of, for the naming variant in use
NamingFields(t) ==
    IF calc = "dateonly" THEN <<DayOf(t)>>
    ELSE <<DayOf(t), TickOfDay(t) \div (60 * TicksPerSec)>>

\* the name n is the dated form of the calendar fields of instant t
DatedBy(n, t) ==
    /\ n[1] = daily_base
    /\ n[Len(n)] = daily_ext
    /\ NameDate(n) = CivilOfDay(DayOf(t))
    /\ calc = "minute" =>
          NameTime(n) = <<TickOfDay(t) \div (3600 * TicksPerSec),
                          (TickOfDay(t) \div (60 * TicksPerSec)) % 60>>

DWrote == dlast.op = "write"
DRotated == DWrote /\ dlast.rotated /\ dlast.err = "none"

\* every file but the named one is as it was before the call
OthersUnchanged(n) == \A x \in DOMAIN ddisk : x # n => ddisk[x] = dpre.disk[x]

\* C7: the next rotation instant is rotation_h:rotation_m:00 on the day of
\* the reading when that is strictly after the reading, and exactly 24 hours
\* later otherwise; with 00:00, 2024-01-01T23:59:59 gives 2024-01-02T00:00:00
\* and 2024-01-02T00:00:01 gives 2024-01-03T00:00:00.
C7_NextRotationInstant ==
    /\ rotation_tp = IF Candidate(tp_from) > tp_from
                     THEN Candidate(tp_from)
                     ELSE Candidate(tp_from) + 24 * 3600 * TicksPerSec
    /\ rotation_tp > tp_from
    /\ rotation_tp - tp_from <= 24 * 3600 * TicksPerSec
    /\ LET tm == localtime(to_time_t(rotation_tp))
       IN  /\ tm.tm_hour = rotation_h /\ tm.tm_min = rotation_m /\ tm.tm_sec = 0
           /\ rotation_tp % TicksPerSec = 0
    /\ (rotation_h = 0 /\ rotation_m = 0) =>
          /\ tp_from = T(2024, 1, 1, 23, 59, 59) => rotation_tp = T(2024, 1, 2, 0, 0, 0)
          /\ tp_from = T(2024, 1, 2, 0, 0, 1) => rotation_tp = T(2024, 1, 3, 0, 0, 0)

\* computed at 2024-01-02T00:00:01 for a rotation at 00:00
C7_Witness ==
    /\ rotation_h = 0 /\ rotation_m = 0
    /\ tp_from = T(2024, 1, 2, 0, 0, 1)
    /\ rotation_tp = T(2024, 1, 3, 0, 0, 0)

\* C8: a write whose clock reading is at or past rotation_tp opens the file
\* dated by the clock, recomputes rotation_tp and appends the record to that
\* file; an earlier write leaves the file and rotation_tp alone and appends
\* to the open file.  However late the write, it opens one file only.
C8_DailyWrite ==
    DWrote =>
        /\ dlast.rotated = (dlast.rd_cmp >= dpre.tp)
        /\ dlast.rd_cmp <= dlast.rd_name /\ dlast.rd_name <= dlast.rd_next
        /\ DRotated =>
              /\ dfile.fd = "open"
              /\ DatedBy(dfile.name, dlast.rd_name)
              /\ rotation_tp = next_rotation_tp(dlast.rd_next, rotation_h, rotation_m)
              /\ rotation_tp > clock
              /\ ddisk[dfile.name] = File(Append(dpre.disk[dfile.name].data, dlast.rec))
              /\ OthersUnchanged(dfile.name)
              /\ nopen = dpre.nopen + 1
        /\ ~dlast.rotated =>
              /\ dlast.err = "none"
              /\ dfile = dpre.file
              /\ rotation_tp = dpre.tp
              /\ ddisk[dfile.name] = File(Append(dpre.disk[dfile.name].data, dlast.rec))
              /\ OthersUnchanged(dfile.name)
              /\ nopen = dpre.nopen

\* a write more than a day after the rotation instant
C8_Witness ==
    /\ DRotated
    /\ dlast.rd_cmp >= dpre.tp + DayTicks
    /\ Cardinality({n \in DOMAIN ddisk : ddisk[n].exists}) = 2

\* C9: rotation_tp is strictly later than the reading it was computed from;
\* it is computed once at construction and once by every write that
\* rotates, and never by a write that does not; a write whose reading is
\* before rotation_tp does not rotate.
C9_RotationInstantRecomputedOncePerRotation ==
    /\ rotation_tp > tp_from
    /\ ncomp = 1 + nopen
    /\ DRotated =>
          /\ ncomp = dpre.ncomp + 1
          /\ tp_from = dlast.rd_next
    /\ (DWrote /\ ~DRotated) =>
          /\ ncomp = dpre.ncomp
          /\ tp_from = dpre.tp_from
          /\ rotation_tp = dpre.tp
    /\ (DWrote /\ dlast.rd_cmp < dpre.tp) => ~dlast.rotated

\* a write that rotated, then a write before the new rotation_tp
C9_Witness ==
    /\ DWrote /\ ~dlast.rotated
    /\ ndaily = 2 /\ nopen = 1 /\ ncomp = 2
    /\ dlast.rd_cmp > tp_from

\* C10 as stated: every rotation opens a file name other than the one that
\* was open before it, in both naming variants and for every rotation time
\* (read here for an open file that was named before rotation_tp, as it is
\* whenever the constructor saw a single clock value).
C10_AsStated ==
    (DRotated /\ dpre.named_at < dpre.tp) => dfile.name # dpre.file.name

\* C10, amended: a rotation opens the file dated by the clock; its name
\* differs from the one open before exactly when the calendar fields of the
\* name differ.  They do whenever the open file was named from a reading
\* before rotation_tp and the name carries the minute or the rotation is at
\* 00:00.  No call removes or shortens a file.
C10_RotationOpensDatedFile ==
    /\ DRotated =>
          /\ (dfile.name # dpre.file.name)
                <=> (NamingFields(dlast.rd_name) # NamingFields(dpre.named_at))
          /\ (/\ dpre.named_at < dpre.tp
              /\ calc = "minute" \/ (rotation_h = 0 /\ rotation_m = 0))
                => dfile.name # dpre.file.name
    /\ DWrote =>
          \A n \in DOMAIN ddisk :
              dpre.disk[n].exists =>
                  /\ ddisk[n].exists
                  /\ Len(ddisk[n].data) >= Len(dpre.disk[n].data)
                  /\ SubSeq(ddisk[n].data, 1, Len(dpre.disk[n].data)) = dpre.disk[n].data

\* a rotation on the day the open file was named: the minute tells them apart
C10_Witness ==
    /\ DRotated
    /\ calc = "minute"
    /\ DayOf(dlast.rd_name) = DayOf(dpre.named_at)
    /\ dpre.named_at < dpre.tp
    /\ dfile.name # dpre.file.name

(***************************************************************************)
(* Properties of the construction of the daily sink.                       *)
(***************************************************************************)
\* C11: a constructor called with rotation_hour outside 0..23 or
\* rotation_minute outside 0..59 throws before the rotation instant is
\* computed and before any file is opened, and no sink exists; called with
\* an in-range pair it does not throw and the sink keeps exactly the hour
\* and minute it was given.
C11_CtorRejectsInvalidRotationTime ==
    dlast.op = "ctor" =>
        /\ (dlast.hour \notin 0..23 \/ dlast.minute \notin 0..59) =>
              /\ dlast.err = "config"
              /\ calc = "none"
              /\ ncomp = 0
              /\ DOMAIN ddisk = {}
        /\ (dlast.hour \in 0..23 /\ dlast.minute \in 0..59) =>
              /\ dlast.err = "none"
              /\ dfile.fd = "open"
              /\ ddisk[dfile.name].exists
        /\ dlast.err = "none" =>
              /\ rotation_h = dlast.hour
              /\ rotation_m = dlast.minute

\* the constructor taking a filename, called with hour 24
C11_Witness ==
    /\ dlast.op = "ctor"
    /\ dlast.form = "filename"
    /\ dlast.hour = 24
    /\ dlast.minute = 0
    /\ dlast.err = "config"

(***************************************************************************)
(* Properties of the simple sink.  They read the last call through spre    *)
(* (the sink before it) and slast (what it did).                           *)
(***************************************************************************)
SData(d) == d[simple_name].data

SWrote == slast.op = "write"

\* C12: _force_flush is false after construction; a write made while it is
\* true appends the record and then flushes the file exactly once, a write
\* made while it is false appends and does not flush; apart from that only
\* flush() flushes, and set_force_flush neither writes nor flushes.  Every
\* record goes to the end of the one file, so the records are in call order.
C12_ForceFlushAfterEveryWrite ==
    /\ DOMAIN sdisk = {simple_name}
    /\ slast.op = "ctor" => ~force_flush /\ nflush = 0
    /\ SWrote =>
          /\ SData(sdisk) = Append(SData(spre.disk), slast.rec)
          /\ force_flush = spre.force
          /\ spre.force =>
                /\ slast.trace = <<"write", "flush">>
                /\ nflush = spre.nflush + 1
                /\ sflushed = Len(SData(sdisk))
          /\ ~spre.force =>
                /\ slast.trace = <<"write">>
                /\ nflush = spre.nflush
                /\ sflushed = spre.sflushed
    /\ slast.op = "flush" =>
          /\ nflush = spre.nflush + 1
          /\ sflushed = Len(SData(sdisk))
          /\ sdisk = spre.disk
          /\ force_flush = spre.force
    /\ slast.op = "set_force_flush" =>
          /\ nflush = spre.nflush
          /\ sflushed = spre.sflushed
          /\ sdisk = spre.disk
    /\ \A j, k \in 1..Len(SData(sdisk)) :
          j < k => SData(sdisk)[j][1] < SData(sdisk)[k][1]

\* a write left unflushed while the option was off, then a write with it on
C12_Witness ==
    /\ SWrote
    /\ spre.force
    /\ spre.sflushed < Len(SData(spre.disk))
    /\ nflush = 1
    /\ Len(SData(sdisk)) >= 2

(***************************************************************************)
(* Properties of the file names.                                           *)
(***************************************************************************)
IsSep(ch) == ch = "/" \/ ch = "\\"

\* the position of the dot that separates the extension: the last dot, if
\* no path separator follows it; 0 if there is none
ExtDot(str) ==
    IF \E k \in 1..Len(str) : str[k] = "." /\ \A j \in k..Len(str) : ~IsSep(str[j])
    THEN CHOOSE k \in 1..Len(str) :
             /\ str[k] = "."
             /\ \A j \in (k + 1)..Len(str) : str[j] # "." /\ ~IsSep(str[j])
    ELSE 0

\* C13: for a filename with no dot after its last path separator (its only
\* dots are in directory names, or it has none) the rotating sink takes the
\* whole filename as base with extension "log", and the daily sink takes
\* the whole filename as base with extension "txt".
C13_AsStated ==
    ExtDot(path) = 0 =>
        /\ rparts.done => rparts.base = path /\ rparts.ext = <<"l", "o", "g">>
        /\ dparts.done => dparts.base = path /\ dparts.ext = <<"t", "x", "t">>

\* no dot and no path separator
Plain(str) == \A k \in 1..Len(str) : str[k] # "." /\ ~IsSep(str[k])

IsNumber(str) ==
    /\ str # <<>>
    /\ \A k \in 1..Len(str) : \E v \in 0..9 : str[k] = Digit(v)
    /\ Len(str) > 1 => str[1] # "0"

\* a name split at its extension dot
BaseOf(str) == SubSeq(str, 1, ExtDot(str) - 1)
ExtOf(str) == SubSeq(str, ExtDot(str) + 1, Len(str))

\* C14: with the base and extension the constructor stored, index 0 gives
\* base.ext and an index i > 0 gives base, a dot, the decimal digits of i,
\* a dot, ext; that name differs from the name of index 0 and from the name
\* of every other index; when ext holds no dot and no separator, splitting
\* the name at its extension dot gives back ext, and splitting the rest
\* again gives back base and the digits of i.  The public overload agrees
\* with it on a filename that has a base and an extension.
C14_IndexedNames ==
    /\ cform = "member" =>
          LET b     == rparts.base
              e     == rparts.ext
              name0 == b \o <<".">> \o e
          IN  /\ cindex = 0 => fname = name0
              /\ cindex > 0 =>
                    /\ fname # name0
                    /\ Len(fname) > Len(name0) + 1
                    /\ SubSeq(fname, 1, Len(b) + 1) = b \o <<".">>
                    /\ SubSeq(fname, Len(fname) - Len(e), Len(fname)) = <<".">> \o e
                    /\ IsNumber(SubSeq(fname, Len(b) + 2, Len(fname) - Len(e) - 1))
                    /\ Num(SubSeq(fname, Len(b) + 2, Len(fname) - Len(e) - 1)) = cindex
              /\ \A j \in 0..MaxIndex :
                    j # cindex => fmt_str(calc_filename(b, j, e)) # fname
              /\ (cindex > 0 /\ Plain(e)) =>
                    /\ ExtDot(fname) > 0
                    /\ ExtOf(fname) = e
                    /\ ExtDot(BaseOf(fname)) > 0
                    /\ BaseOf(BaseOf(fname)) = b
                    /\ IsNumber(ExtOf(BaseOf(fname)))
                    /\ Num(ExtOf(BaseOf(fname))) = cindex
    /\ (/\ cform = "static"
        /\ ExtDot(path) > 1
        /\ ExtDot(path) < Len(path)
        /\ ~IsSep(path[ExtDot(path) - 1])) =>
          fname = fmt_str(calc_filename(BaseOf(path), cindex, ExtOf(path)))

\* a two-digit index on a base with a directory and a plain extension
C14_Witness ==
    /\ cform = "member"
    /\ cindex = 11
    /\ path = <<"a", "/", "a", ".", "a">>
    /\ fname = <<"a", "/", "a", ".", "1", "1", ".", "a">>

(***************************************************************************)
(* Further properties of the rotating sink.                                *)
(***************************************************************************)
\* a record this sink wrote (the records found at construction have ids < 0)
IsWritten(rec) == rec[1] > 0

\* the data of base.i.ext, ..., base.1.ext, base.ext, in that order
RECURSIVE Chain(_, _)
Chain(d, i) ==
    IF i = 0 THEN At(d, 0).data ELSE At(d, i).data \o Chain(d, i - 1)

\* C15: after construction current_size is the size of the active file as
\* it was found, and after every write that returned, rotating or not and
\* whatever happened before it, current_size is the number of bytes the
\* active file holds.
C15_SizeTracksActiveFile ==
    /\ last.op = "ctor" =>
          /\ current_size = Bytes(At(disk, 0).data)
          /\ At(disk, 0).data = At(first, 0).data
    /\ (Wrote /\ Ok) =>
          /\ At(disk, 0).exists
          /\ current_size = Bytes(At(disk, 0).data)

\* an append to what an earlier rotation left, the file being exactly full
C15_Witness ==
    /\ Wrote /\ Ok /\ ~last.rotated
    /\ nrot >= 1
    /\ current_size = 2
    /\ Len(At(disk, 0).data) = 2

\* C16: with max_files >= 1 and no call having thrown, the records this
\* sink wrote that are in base.max_files.ext, ..., base.1.ext, base.ext,
\* read in that order, are the last ones written, each once and in the
\* order written; the last record written ends base.ext; a rotation keeps
\* every written record that was below index max_files, one index higher.
C16_RecordsContiguous ==
    (max_files >= 1 /\ nfail = 0 /\ nwrites >= 1) =>
        LET cat == SelectSeq(Chain(disk, max_files), IsWritten)
        IN  /\ cat # <<>>
            /\ \A k \in 1..Len(cat) : cat[k][1] = nwrites - Len(cat) + k
            /\ At(disk, 0).data # <<>>
            /\ At(disk, 0).data[Len(At(disk, 0).data)] = last.rec
            /\ last.rec[1] = nwrites
            /\ \A i \in (max_files + 1)..MaxBackups :
                  SelectSeq(At(disk, i).data, IsWritten) = <<>>
            /\ Rotated =>
                  \A i \in 0..(max_files - 1) :
                      SelectSeq(At(disk, i + 1).data, IsWritten)
                          = SelectSeq(At(pre.disk, i).data, IsWritten)

\* three files holding the three records written, oldest in the highest
C16_Witness ==
    /\ max_files = 2 /\ nfail = 0 /\ nwrites = 3 /\ nrot = 2
    /\ SelectSeq(At(disk, 2).data, IsWritten) # <<>>
    /\ SelectSeq(At(disk, 1).data, IsWritten) # <<>>

\* C17: when a rotation threw and a later write rotates successfully, every
\* backup that was at an index 1..max_files-1 before the first of the failed
\* attempts is still on disk: only what was at index max_files is gone.
C17_AsStated ==
    (Rotated /\ pre.err # "none") =>
        \A i \in 1..(max_files - 1) :
            At(attempt, i).exists => OnDisk(disk, At(attempt, i).data)

IsStep(e) == e[1] \in {"remove", "rename"}

\* C18: a rotation closes the file first and once; its removes and renames
\* go by strictly descending index, the remove of an index before the rename
\* onto it; the file is reopened only when every index whose source existed
\* has been renamed, nothing is removed or renamed after that, and the
\* record is written only after the reopen, as the last thing; a rotation
\* that throws leaves the file closed and writes nothing.
C18_RotateStepOrder ==
    (Wrote /\ last.rotated) =>
        LET tr == last.trace
        IN  /\ tr[1] = <<"close", 0>>
            /\ Count(<<"close", 0>>, tr) = 1
            /\ \A j, k \in 1..Len(tr) :
                  (j < k /\ IsStep(tr[j]) /\ IsStep(tr[k])) =>
                      \/ tr[j][2] > tr[k][2]
                      \/ (tr[j][2] = tr[k][2] /\ tr[j][1] = "remove"
                                               /\ tr[k][1] = "rename")
            /\ \A k \in 1..Len(tr) :
                  tr[k] = <<"reopen", 0>> =>
                      /\ \A j \in (k + 1)..Len(tr) : tr[j] = <<"write", 0>>
                      /\ \A i \in 1..max_files :
                            At(pre.disk, i - 1).exists => InSeq(<<"rename", i>>, tr)
            /\ \A k \in 1..Len(tr) :
                  tr[k] = <<"write", 0>> =>
                      /\ k = Len(tr)
                      /\ tr[k - 1] = <<"reopen", 0>>
                      /\ Ok
            /\ Ok => /\ tr[Len(tr)] = <<"write", 0>>
                     /\ At(disk, 0) = File(<<last.rec>>)
                     /\ fd = "open"
            /\ ~Ok => /\ fd = "closed"
                      /\ ~Stored(disk, last.rec)

\* a full pass over two backups: close, remove 2, rename 2, rename 1, reopen
C18_Witness ==
    /\ Rotated
    /\ last.trace = << <<"close", 0>>, <<"remove", 2>>, <<"rename", 2>>,
                       <<"rename", 1>>, <<"reopen", 0>>, <<"write", 0>> >>

\* C20: with max_files = 0 no call removes or renames a file, the files of
\* an index above 0 stay as they were found and hold no record of this sink,
\* a rotation is close, reopen truncated, write, leaving the record as the
\* only content of base.ext, and a write that does not rotate appends to
\* base.ext; a rotation can only fail at the reopen.
C20_NoBackupsWhenMaxFilesZero ==
    (max_files = 0 /\ Wrote) =>
        /\ \A k \in 1..Len(last.trace) : ~IsStep(last.trace[k])
        /\ \A i \in 1..MaxBackups :
              /\ At(disk, i) = At(pre.disk, i)
              /\ SelectSeq(At(disk, i).data, IsWritten) = <<>>
        /\ Rotated =>
              /\ last.trace = << <<"close", 0>>, <<"reopen", 0>>, <<"write", 0>> >>
              /\ At(disk, 0) = File(<<last.rec>>)
        /\ (Ok /\ ~last.rotated) =>
              At(disk, 0) = File(Append(At(pre.disk, 0).data, last.rec))
        /\ RotationFailed =>
              /\ last.err = "reopen"
              /\ At(disk, 0) = At(pre.disk, 0)

\* the second rotation of a sink without backups
C20_Witness ==
    /\ max_files = 0
    /\ Rotated
    /\ nrot = 2
    /\ At(pre.disk, 0).data # <<>>

(***************************************************************************)
(* Further properties of the daily sink.                                   *)
(***************************************************************************)
\* C19: a write that finds the rotation due and cannot open the dated file
\* throws, appends its record to no file, changes no file and leaves
\* rotation_tp as it was, with the clock at or past it; so the write after
\* it finds the rotation due again and, when the open succeeds, appends to
\* the file dated by its own clock reading.  No write goes through a file
\* that is not open.
C19_OpenFailureLeavesRotationPending ==
    /\ (DWrote /\ dlast.err = "open") =>
          /\ dlast.rotated
          /\ rotation_tp = dpre.tp
          /\ tp_from = dpre.tp_from
          /\ ncomp = dpre.ncomp
          /\ nopen = dpre.nopen
          /\ ddisk = dpre.disk
          /\ \A n \in DOMAIN ddisk : ~InSeq(dlast.rec, ddisk[n].data)
          /\ dfile.fd = "closed"
    /\ dfile.fd = "closed" => clock >= rotation_tp
    /\ (DWrote /\ dpre.file.fd = "closed") =>
          /\ dlast.rotated
          /\ dlast.err = "none" =>
                /\ dfile.fd = "open"
                /\ DatedBy(dfile.name, dlast.rd_name)
                /\ InSeq(dlast.rec, ddisk[dfile.name].data)
                /\ rotation_tp > clock
    /\ DWrote => dlast.err # "write"

\* the open fails at the rotation instant, and the next write opens the file
C19_Witness ==
    /\ DRotated
    /\ dpre.file.fd = "closed"
    /\ dfile.name # dpre.file.name
    /\ ndaily = 2

====
